---- MODULE Spec2Model ----
(***************************************************************************)
(* Model of portfolio/optimization.py: the Sharpe-ratio objective, the     *)
(* constrained search set up by find_optimal_allocations, and the          *)
(* post-processing and reporting done by optimize_portfolio.               *)
(*                                                                         *)
(* Reals are exact rationals [n, d] in lowest terms with d > 0.  The       *)
(* floating-point specials are kept: NaN is [n |-> 0, d |-> 0] and the     *)
(* signed infinities are [n |-> 1, d |-> 0] and [n |-> -1, d |-> 0].       *)
(* The two irrational statistics (the standard deviation and the Sharpe    *)
(* ratio) are carried by the order-preserving encoding                     *)
(* Enc(x) = sign(x) * x^2, which commutes with negation.                   *)
(***************************************************************************)
EXTENDS Integers, Sequences, FiniteSets, TLC

(* ------------------------------ bounds --------------------------------- *)
\* largest instrument count of a price history
MaxN == 4
\* largest number of objective evaluations the solver requests in one call
MaxEvals == 2
\* largest number of consecutive optimization runs on the same price history
MaxRuns == 2

(* ------------------------- program constants --------------------------- *)
\* the repetition count of the bounds list, "[(0, N)] * 4"
BoundsLen == 4
\* trading periods per year used to annualise the Sharpe ratio
PeriodsPerYear == 252

(* ----------------------- extended rational numbers --------------------- *)
Abs(x) == IF x < 0 THEN -x ELSE x

Sign(x) == IF x < 0 THEN -1 ELSE IF x > 0 THEN 1 ELSE 0

RECURSIVE GCD(_, _)
GCD(a, b) == IF b = 0 THEN a ELSE GCD(b, a % b)

NaN == [n |-> 0, d |-> 0]

Inf(s) == [n |-> s, d |-> 0]

\* the rational n/d in lowest terms; x/0 is a signed infinity, 0/0 is NaN
Rat(n, d) ==
    IF d = 0 THEN [n |-> Sign(n), d |-> 0]
    ELSE LET g == GCD(Abs(n), Abs(d))
         IN  [n |-> Sign(d) * (n \div g), d |-> Abs(d) \div g]

Zero == Rat(0, 1)

One == Rat(1, 1)

IsNaN(x) == x.d = 0 /\ x.n = 0

IsInf(x) == x.d = 0 /\ x.n # 0

IsFinite(x) == x.d > 0

RatNeg(x) == [n |-> -x.n, d |-> x.d]

RatAdd(a, b) ==
    IF IsNaN(a) \/ IsNaN(b) THEN NaN
    ELSE IF IsInf(a) /\ IsInf(b) THEN (IF a.n = b.n THEN a ELSE NaN)
    ELSE IF IsInf(a) THEN a
    ELSE IF IsInf(b) THEN b
    ELSE LET g == GCD(a.d, b.d)
         IN  Rat(a.n * (b.d \div g) + b.n * (a.d \div g), (a.d \div g) * b.d)

RatSub(a, b) == RatAdd(a, RatNeg(b))

RatMul(a, b) ==
    IF IsNaN(a) \/ IsNaN(b) THEN NaN
    ELSE IF IsInf(a) \/ IsInf(b)
         THEN (IF a.n = 0 \/ b.n = 0 THEN NaN ELSE Inf(Sign(a.n) * Sign(b.n)))
    ELSE LET g1 == GCD(Abs(a.n), b.d)
             g2 == GCD(Abs(b.n), a.d)
         IN  Rat((a.n \div g1) * (b.n \div g2), (a.d \div g2) * (b.d \div g1))

\* 1/x with IEEE results: 1/0 = +inf, 1/inf = 0
RatInv(x) ==
    IF IsNaN(x) THEN NaN
    ELSE IF IsInf(x) THEN Zero
    ELSE IF x.n = 0 THEN Inf(1)
    ELSE [n |-> Sign(x.n) * x.d, d |-> Abs(x.n)]

RatDiv(a, b) == RatMul(a, RatInv(b))

\* an/ad < bn/bd for ad, bd > 0, by comparing the integer parts and then
\* the reciprocals of the fractional parts (no cross products)
RECURSIVE FracLess(_, _, _, _)
FracLess(an, ad, bn, bd) ==
    LET qa == an \div ad
        qb == bn \div bd
        ra == an - qa * ad
        rb == bn - qb * bd
    IN  IF qa # qb THEN qa < qb
        ELSE IF rb = 0 THEN FALSE
        ELSE IF ra = 0 THEN TRUE
        ELSE FracLess(bd, rb, ad, ra)

\* a < b as floating-point comparison: false as soon as one side is NaN
RatLess(a, b) ==
    IF IsNaN(a) \/ IsNaN(b) THEN FALSE
    ELSE IF IsInf(a) /\ IsInf(b) THEN a.n < b.n
    ELSE IF IsInf(a) THEN a.n < 0
    ELSE IF IsInf(b) THEN b.n > 0
    ELSE FracLess(a.n, a.d, b.n, b.d)

RECURSIVE SumSeq(_)
SumSeq(s) == IF s = <<>> THEN Zero ELSE RatAdd(s[1], SumSeq(Tail(s)))

\* Enc(x) = sign(x) * x^2 of a rational x
Enc(x) == RatMul(x, [n |-> Abs(x.n), d |-> x.d])

(* ------------------------------ inputs --------------------------------- *)
\* adjusted closing prices of one instrument, one positive value per date:
\* a rising, a finally falling and a flat series
SeriesCatalogue == << <<1, 2, 3>>, <<2, 2, 1>>, <<3, 3, 3>> >>

\* the number of trading dates of every price history
NumDays == Len(SeriesCatalogue[1])

\* the price histories of 0..MaxN instruments: prices[i][t] is the price of
\* instrument i at date t (prices.shape[1] is the instrument count); the
\* instruments are listed in the order of the catalogue
PriceHistories ==
    UNION { { [i \in 1..n |-> SeriesCatalogue[f[i]]] :
                f \in { g \in [1..n -> 1..Len(SeriesCatalogue)] :
                          \A i \in 1..n, j \in 1..n : i <= j => g[i] <= g[j] } } :
            n \in 0..MaxN }

\* prices.shape[1]
Shape1(p) == Len(p)

(* --------------------- analysis.py (PortfolioEvaluator) ---------------- *)
\* normalise every instrument by its first price, scale by its allocation
\* and sum across the instruments for each date (start_val = 1.0)
get_portfolio_value(p, a) ==
    [t \in 1..NumDays |->
        SumSeq([i \in 1..Shape1(p) |->
                    RatMul(a[i], RatDiv(Rat(p[i][t], 1), Rat(p[i][1], 1)))])]

\* daily_ret[t] = port_val[t+1] / port_val[t] - 1
daily_returns(pv) ==
    [t \in 1..(Len(pv) - 1) |-> RatSub(RatDiv(pv[t + 1], pv[t]), One)]

Mean(s) == RatDiv(SumSeq(s), Rat(Len(s), 1))

\* sample variance (ddof = 1)
Variance(s) ==
    LET m == Mean(s)
        sq == [t \in 1..Len(s) |-> RatMul(RatSub(s[t], m), RatSub(s[t], m))]
    IN  RatDiv(SumSeq(sq), Rat(Len(s) - 1, 1))

\* cum_ret, avg_daily_ret, std_daily_ret, sharpe_ratio of a value series;
\* std_daily_ret and sharpe_ratio hold Enc of the value:
\* Enc(std) = variance, Enc(sqrt(252) * avg / std) = 252 * Enc(avg) / variance
get_portfolio_stats(pv) ==
    LET dr  == daily_returns(pv)
        avg == Mean(dr)
        var == Variance(dr)
    IN  [ cum_ret       |-> RatSub(RatDiv(pv[Len(pv)], pv[1]), One),
          avg_daily_ret |-> avg,
          std_daily_ret |-> var,
          sharpe_ratio  |-> RatDiv(RatMul(Rat(PeriodsPerYear, 1), Enc(avg)), var) ]

(* --------------------------- optimization.py --------------------------- *)
\* a faulty objective that forgets the negation, so that minimising it would
\* minimise the Sharpe ratio
sharpe_maximizerPos(a, p) ==
    get_portfolio_stats(get_portfolio_value(p, a)).sharpe_ratio

\* the objective handed to the minimizer: the negated Sharpe ratio
sharpe_maximizer(a, p) ==
    RatNeg(get_portfolio_stats(get_portfolio_value(p, a)).sharpe_ratio)

VARIABLES
    prices,         \* the price history of the run (read-only input)
    run,            \* the number of the current optimization run
    pc,             \* the statement the current run has reached
    init_guess,     \* find_optimal_allocations: init_guess
    alloc_bounds,   \* find_optimal_allocations: alloc_bounds
    solverInvoked,  \* spo.minimize has been called in this run
    nevals,         \* objective evaluations of the current solver call
    candidate,      \* the allocation the solver is evaluating
    objective,      \* the value sharpe_maximizer returned for candidate
    objective0,     \* the value sharpe_maximizer returned for init_guess
    min_result,     \* find_optimal_allocations: min_result (x and success)
    allocs,         \* optimize_portfolio: allocs
    port_val,       \* optimize_portfolio: port_val
    stats,          \* optimize_portfolio: cum_ret .. sharpe_ratio
    console,        \* what the print statements have written
    plotted,        \* plot_data has been called in this run
    exception,      \* the exception that ended the run, "none" if none
    returned,       \* what optimize_portfolio returned to its caller
    solverMemo,     \* the solver's results so far, by its arguments
    prev            \* the outcome of the previous run

vars == << prices, run, pc, init_guess, alloc_bounds, solverInvoked, nevals,
           candidate, objective, objective0, min_result, allocs, port_val,
           stats, console, plotted, exception, returned, solverMemo, prev >>

N == Shape1(prices)

NoResult == [x |-> <<>>, success |-> FALSE]

NoStats == [cum_ret |-> NaN, avg_daily_ret |-> NaN,
            std_daily_ret |-> NaN, sharpe_ratio |-> NaN]

NoOutcome == [allocs |-> <<>>, stats |-> NoStats, exception |-> "none",
              returned |-> "pending"]

\* a faulty initial guess that starts from the allocation an earlier run
\* left behind
InitGuessWarm(p) ==
    IF Len(prev.allocs) = Shape1(p) /\ Shape1(p) > 0
    THEN prev.allocs
    ELSE [i \in 1..Shape1(p) |-> Rat(1, Shape1(p))]

\* np.ones(prices.shape[1]) * 1.0 / prices.shape[1]
InitGuess(p) == [i \in 1..Shape1(p) |-> Rat(1, Shape1(p))]

\* [(0, prices.shape[1])] * 4
AllocBounds(p) == [i \in 1..BoundsLen |-> << Zero, Rat(Shape1(p), 1) >>]

\* the equality constraint handed to the solver: np.sum(x) - 1
alloc_constraint(x) == RatSub(SumSeq(x), One)

\* weights the solver may try, inside and outside of the bounds
WeightGrid(n) ==
    { Rat(-1, 1), Zero, Rat(1, n), One, Rat(n, 1), Rat(n + 1, 1) }

\* the vectors the solver may try: weight g on the first instrument, weight
\* h on the others
Shapes(n) ==
    { [i \in 1..n |-> IF i = 1 THEN g ELSE h] :
        g \in WeightGrid(n), h \in {Zero, Rat(1, n)} }

\* SLSQP keeps every iterate inside the bounds
InBounds(x, b) ==
    \A i \in 1..Len(x) : ~RatLess(x[i], b[i][1]) /\ ~RatLess(b[i][2], x[i])

Candidates(x0, b) == { x \in Shapes(Len(x0)) : InBounds(x, b) }

\* a faulty normalisation that multiplies by the sum
NormalizeMul(a) == [i \in 1..Len(a) |-> RatMul(a[i], SumSeq(a))]

\* allocs / np.sum(allocs)
Normalize(a) == [i \in 1..Len(a) |-> RatDiv(a[i], SumSeq(a))]

TypeOK ==
    /\ prices \in PriceHistories
    /\ run \in 1..MaxRuns
    /\ pc \in {"start", "minimize", "solving", "minimized", "found",
               "normalized", "evaluated", "done", "raised"}
    /\ nevals \in 0..MaxEvals
    /\ solverInvoked \in BOOLEAN
    /\ plotted \in BOOLEAN
    /\ exception \in {"none", "BoundsMismatch"}
    /\ returned \in {"pending", "None", "raised"}

Init ==
    /\ prices \in PriceHistories
    /\ run = 1
    /\ pc = "start"
    /\ init_guess = <<>>
    /\ alloc_bounds = <<>>
    /\ solverInvoked = FALSE
    /\ nevals = 0
    /\ candidate = <<>>
    /\ objective = NaN
    /\ objective0 = NaN
    /\ min_result = NoResult
    /\ allocs = <<>>
    /\ port_val = <<>>
    /\ stats = NoStats
    /\ console = <<>>
    /\ plotted = FALSE
    /\ exception = "none"
    /\ returned = "pending"
    /\ solverMemo = {}
    /\ prev = NoOutcome

\* find_optimal_allocations, lines 44-46: the solver's arguments
FindSetup ==
    /\ pc = "start"
    /\ init_guess' = InitGuess(prices)
    /\ alloc_bounds' = AllocBounds(prices)
    /\ pc' = "minimize"
    /\ UNCHANGED << prices, run, solverInvoked, nevals, candidate, objective,
                    objective0, min_result, allocs, port_val, stats, console,
                    plotted, exception, returned, solverMemo, prev >>

\* spo.minimize is entered: it rejects bounds whose length is not len(x0),
\* and the exception leaves find_optimal_allocations and optimize_portfolio
SolverCall ==
    /\ pc = "minimize"
    /\ solverInvoked' = TRUE
    /\ IF Len(alloc_bounds) # Len(init_guess)
       THEN /\ pc' = "raised"
            /\ exception' = "BoundsMismatch"
            /\ returned' = "raised"
       ELSE /\ pc' = "solving"
            /\ UNCHANGED << exception, returned >>
    /\ UNCHANGED << prices, run, init_guess, alloc_bounds, nevals, candidate,
                    objective, objective0, min_result, allocs, port_val,
                    stats, console, plotted, solverMemo, prev >>

\* the solver evaluates the objective: first at x0, then at iterates of its
\* choice inside the bounds
Evaluate ==
    /\ pc = "solving"
    /\ nevals < MaxEvals
    /\ \E c \in Candidates(init_guess, alloc_bounds) :
          /\ nevals = 0 => c = init_guess
          /\ candidate' = c
          /\ objective' = sharpe_maximizer(c, prices)
          /\ objective0' = IF nevals = 0 THEN sharpe_maximizer(c, prices)
                           ELSE objective0
    /\ nevals' = nevals + 1
    /\ UNCHANGED << prices, run, pc, init_guess, alloc_bounds, solverInvoked,
                    min_result, allocs, port_val, stats, console, plotted,
                    exception, returned, solverMemo, prev >>

SolverArgs == [x0 |-> init_guess, bounds |-> alloc_bounds, args |-> prices]

\* spo.minimize returns: x is an iterate inside the bounds, success tells
\* whether the search converged, and a converged x meets the equality
\* constraint; the solver is deterministic, so the same arguments give the
\* same result again
SolverReturn ==
    /\ pc = "solving"
    /\ nevals >= 1
    /\ IF \E m \in solverMemo : m.args = SolverArgs
       THEN /\ min_result' = (CHOOSE m \in solverMemo : m.args = SolverArgs).result
            /\ UNCHANGED solverMemo
       ELSE \E x \in Candidates(init_guess, alloc_bounds), ok \in BOOLEAN :
               /\ ok => alloc_constraint(x) = Zero
               /\ min_result' = [x |-> x, success |-> ok]
               /\ solverMemo' = solverMemo \cup
                     { [args |-> SolverArgs, result |-> min_result'] }
    /\ pc' = "minimized"
    /\ nevals' = 0
    /\ candidate' = <<>>
    /\ objective' = NaN
    /\ objective0' = NaN
    /\ UNCHANGED << prices, run, init_guess, alloc_bounds, solverInvoked,
                    allocs, port_val, stats, console, plotted, exception,
                    returned, prev >>

\* find_optimal_allocations, lines 51-52: print min_result; return min_result.x
\* optimize_portfolio, line 64: allocs = find_optimal_allocations(prices)
FindReturn ==
    /\ pc = "minimized"
    /\ console' = Append(console, "min_result")
    /\ allocs' = min_result.x
    /\ pc' = "found"
    /\ UNCHANGED << prices, run, init_guess, alloc_bounds, solverInvoked,
                    nevals, candidate, objective, objective0, min_result,
                    port_val, stats, plotted, exception, returned,
                    solverMemo, prev >>

\* optimize_portfolio, line 65: allocs = allocs / np.sum(allocs)
NormalizeStep ==
    /\ pc = "found"
    /\ allocs' = Normalize(allocs)
    /\ pc' = "normalized"
    /\ UNCHANGED << prices, run, init_guess, alloc_bounds, solverInvoked,
                    nevals, candidate, objective, objective0, min_result,
                    port_val, stats, console, plotted, exception, returned,
                    solverMemo, prev >>

\* a faulty final evaluation that uses the solver's raw output
FinalEvaluateRaw ==
    /\ pc = "normalized"
    /\ port_val' = get_portfolio_value(prices, min_result.x)
    /\ stats' = get_portfolio_stats(port_val')
    /\ pc' = "evaluated"
    /\ UNCHANGED << prices, run, init_guess, alloc_bounds, solverInvoked,
                    nevals, candidate, objective, objective0, min_result,
                    allocs, console, plotted, exception, returned,
                    solverMemo, prev >>

\* optimize_portfolio, lines 68-71: the value series and the statistics of
\* the normalised allocation
FinalEvaluate ==
    /\ pc = "normalized"
    /\ port_val' = get_portfolio_value(prices, allocs)
    /\ stats' = get_portfolio_stats(port_val')
    /\ pc' = "evaluated"
    /\ UNCHANGED << prices, run, init_guess, alloc_bounds, solverInvoked,
                    nevals, candidate, objective, objective0, min_result,
                    allocs, console, plotted, exception, returned,
                    solverMemo, prev >>

\* optimize_portfolio, lines 74-86: print the statistics, plot the value
\* series against SPY, and fall off the end of the function
Report ==
    /\ pc = "evaluated"
    /\ console' = console \o << "Start Date:", "End Date:", "Symbols:",
                                "Optimal allocations:", "Sharpe Ratio:",
                                "Volatility (stdev of daily returns):",
                                "Average Daily Return:", "Cumulative Return:" >>
    /\ plotted' = TRUE
    /\ returned' = "None"
    /\ pc' = "done"
    /\ UNCHANGED << prices, run, init_guess, alloc_bounds, solverInvoked,
                    nevals, candidate, objective, objective0, min_result,
                    allocs, port_val, stats, exception, solverMemo, prev >>

\* the caller starts optimize_portfolio again on the same dates and symbols:
\* the locals of the finished run are gone
NextRun ==
    /\ pc \in {"done", "raised"}
    /\ run < MaxRuns
    /\ run' = run + 1
    /\ prev' = [allocs |-> allocs, stats |-> stats, exception |-> exception,
                returned |-> returned]
    /\ pc' = "start"
    /\ init_guess' = <<>>
    /\ alloc_bounds' = <<>>
    /\ solverInvoked' = FALSE
    /\ min_result' = NoResult
    /\ allocs' = <<>>
    /\ port_val' = <<>>
    /\ stats' = NoStats
    /\ console' = <<>>
    /\ plotted' = FALSE
    /\ exception' = "none"
    /\ returned' = "pending"
    /\ UNCHANGED << prices, nevals, candidate, objective, objective0,
                    solverMemo >>

Next ==
    \/ FindSetup
    \/ SolverCall
    \/ Evaluate
    \/ SolverReturn
    \/ FindReturn
    \/ NormalizeStep
    \/ FinalEvaluate
    \/ Report
    \/ NextRun

Spec == Init /\ [][Next]_vars

(* ------------------------------- claims -------------------------------- *)
\* the run has got its allocation back from find_optimal_allocations and
\* has normalised it
Normalized == pc \in {"normalized", "evaluated", "done"}

\* the run has ended, by returning or by an exception
Ended == pc \in {"done", "raised"}

NonNegative(x) == \A i \in 1..Len(x) : ~RatLess(x[i], Zero) /\ ~IsNaN(x[i])

\* C1: for every price history with at least one instrument, the allocation
\* the run reports after normalisation sums to 1.0, whatever raw vector the
\* solver returned.
C1_ReportedAllocationSumsToOne ==
    (Normalized /\ N >= 1) => SumSeq(allocs) = One

\* C2: find_optimal_allocations hands the solver exactly one bound pair per
\* instrument, N pairs for N weights, each pair being [0, N].
C2_OneBoundPairPerInstrument ==
    (pc # "start" /\ N >= 1) =>
        /\ Len(alloc_bounds) = N
        /\ \A i \in 1..Len(alloc_bounds) :
              alloc_bounds[i] = << Zero, Rat(N, 1) >>

\* C3: the steps occur in the order search, normalisation, final evaluation:
\* nothing is evaluated for the report before the allocation is normalised,
\* and the value series and the statistics of the report are those of the
\* normalised allocation, not of the solver's raw output.
C3_ReportFromNormalizedAllocation ==
    /\ pc \in {"start", "minimize", "solving", "minimized", "found",
               "normalized"} => (port_val = <<>> /\ stats = NoStats)
    /\ pc \in {"evaluated", "done"} =>
          /\ allocs = Normalize(min_result.x)
          /\ port_val = get_portfolio_value(prices, Normalize(min_result.x))
          /\ stats = get_portfolio_stats(port_val)

\* a finished run whose raw solver output did not sum to 1 and whose report
\* has a finite Sharpe ratio
C3_Witness ==
    /\ pc = "done"
    /\ SumSeq(min_result.x) # One
    /\ IsFinite(stats.sharpe_ratio)
    /\ port_val # get_portfolio_value(prices, min_result.x)

\* C4: whenever the solver reports non-convergence, the optimization fails
\* with OptimizationDidNotConverge; it never hands the last iterate on as
\* the optimal allocation without signalling the non-convergence.
C4_NonConvergenceSignalled ==
    (pc \in {"found", "normalized", "evaluated", "done"}
        /\ ~min_result.success) => exception = "OptimizationDidNotConverge"

\* C5: with zero instruments the optimization fails with EmptyPortfolio
\* before the solver is invoked.
C5_EmptyPortfolioRejected ==
    N = 0 =>
        /\ ~solverInvoked
        /\ Ended => exception = "EmptyPortfolio"

\* C6: with exactly one instrument the optimization completes without error
\* and returns the allocation [1.0].
C6_SingleInstrument ==
    (N = 1 /\ Ended) =>
        (pc = "done" /\ exception = "none" /\ allocs = << One >>)

\* C7: the optimizer performs no I/O: nothing is written to the console or
\* plotted during a run.
C7_NoConsoleOutput == console = <<>> /\ ~plotted

\* C8: two runs on identical price histories yield the same allocation and
\* the same statistics; the initial guess is 1/N per instrument and, like the
\* bounds, depends only on the price history, not on an earlier run.
C8_RunsAgree ==
    /\ pc # "start" =>
          /\ init_guess = [i \in 1..N |-> Rat(1, N)]
          /\ alloc_bounds = AllocBounds(prices)
    /\ (run >= 2 /\ Ended) =>
          /\ allocs = prev.allocs
          /\ stats = prev.stats
          /\ exception = prev.exception
          /\ returned = prev.returned

\* a second or later run that has finished with a finite Sharpe ratio
C8_Witness ==
    /\ run >= 2
    /\ pc = "done"
    /\ prev.returned = "None"
    /\ IsFinite(stats.sharpe_ratio)

SharpeOf(a) == get_portfolio_stats(get_portfolio_value(prices, a)).sharpe_ratio

\* C9: for every candidate the solver requests, sharpe_maximizer returns the
\* negation of the Sharpe ratio of that candidate on the same price history,
\* so a smaller objective value corresponds to a larger Sharpe ratio; an
\* evaluation leaves the price history and the solver's x0 unchanged.
C9_ObjectiveIsNegatedSharpe ==
    /\ [](pc = "solving" /\ nevals >= 1 =>
            /\ objective = RatNeg(SharpeOf(candidate))
            /\ objective0 = RatNeg(SharpeOf(init_guess))
            /\ RatLess(objective, objective0)
                  <=> RatLess(SharpeOf(init_guess), SharpeOf(candidate)))
    /\ [][(pc = "solving" /\ nevals' = nevals + 1) =>
            /\ prices' = prices
            /\ init_guess' = init_guess
            /\ candidate' \in Candidates(init_guess, alloc_bounds)]_vars

\* the solver has evaluated an iterate with a finite Sharpe ratio above the
\* one of the initial guess
C9_Witness ==
    /\ pc = "solving"
    /\ nevals >= 2
    /\ IsFinite(objective)
    /\ IsFinite(objective0)
    /\ RatLess(objective, objective0)

\* C10: whenever the raw output has no weight below 0 and a positive sum,
\* every weight of the normalised allocation lies in [0, 1]; and no iterate
\* with non-negative weights that sum to 1 has a weight above 1, so the upper
\* bound N does not bind.
C10_NormalizedWeightsInUnitInterval ==
    /\ (Normalized /\ NonNegative(min_result.x)
           /\ RatLess(Zero, SumSeq(min_result.x))) =>
          \A i \in 1..Len(allocs) :
              /\ IsFinite(allocs[i])
              /\ ~RatLess(allocs[i], Zero)
              /\ ~RatLess(One, allocs[i])
    /\ (pc = "solving" /\ nevals >= 1 /\ NonNegative(candidate)
           /\ SumSeq(candidate) = One) =>
          \A i \in 1..Len(candidate) : ~RatLess(One, candidate[i])

\* a normalised allocation whose raw vector had a weight above 1
C10_Witness ==
    /\ Normalized
    /\ \E i \in 1..Len(min_result.x) : RatLess(One, min_result.x[i])
    /\ \E i \in 1..Len(allocs) : RatLess(Zero, allocs[i]) /\ RatLess(allocs[i], One)
    /\ SumSeq(allocs) = One

====
